---- MODULE Spec2Model ----
(***************************************************************************)
(* Model of the lab-topology tools of pi-hil-testing-utils:                *)
(*   scripts/resolve_target.py      (resolve_target_file, main)            *)
(*   scripts/generate_places_yaml.py (generate_places_yaml)                *)
(* Each script is one process invocation; SpecResolve and SpecGen are the  *)
(* two programs.                                                           *)
(***************************************************************************)
EXTENDS Integers, Sequences, FiniteSets, TLC

VARIABLES
    labnet,       \* the parsed labnet.yaml: [devices |-> ..., labs |-> ...]
    pc,           \* position of the running script
    status,       \* process termination status (-1 while running)
    stdout,       \* lines printed to standard output
    stderr,       \* lines printed to standard error
    device_name,  \* resolve_target.py: sys.argv[1]
    lab_name,     \* generate_places_yaml: --lab
    labnet_file,  \* generate_places_yaml: state of labnet_path (missing, ok, malformed)
    template,     \* generate_places_yaml: the file at template_path: [exists, content]
    now,          \* wall clock (seconds since the epoch)
    epoch,        \* generate_places_yaml: int(datetime.now().timestamp()) of this run
    places_yaml,  \* generate_places_yaml: the rendered text (local variable)
    out_dir,      \* TRUE iff output_path.parent exists
    out_file,     \* the file at output_path: [exists, content]
    last_epoch,   \* epoch of the render that wrote out_file (-1: not written by a render)
    entry,        \* output location and last_epoch as they were when this run started
    runs          \* invocations of generate_places_yaml so far

vars == <<labnet, pc, status, stdout, stderr, device_name, lab_name,
          labnet_file, template, now, epoch, places_yaml, out_dir, out_file,
          last_epoch, entry, runs>>

genVars == <<lab_name, labnet_file, template, now, epoch, places_yaml, out_dir,
             out_file, last_epoch, entry, runs>>

----------------------------------------------------------------------------
(* Bounds and universes *)

MaxAliases == 1       \* aliases in one instance list
MaxTemplateLen == 2   \* lines of a template
MaxClock == 2         \* the clock stops advancing here
MaxRuns == 2          \* invocations of generate_places_yaml in one behaviour

\* Strings that occur as device keys, base-device keys and instance aliases.
Names == {"belkin_rt3200_1", "linksys_e8450", "glinet_mango"}
AliasNames == {"belkin_rt3200_1", "linksys_e8450"}
BaseNames == {"linksys_e8450", "glinet_mango"}
\* Keys of labs, in the order the resolver's topologies store them.
LabNames == <<"labgrid-fcefyn", "labgrid-hsn">>

----------------------------------------------------------------------------
(* YAML values and Python formatting *)

\* A YAML scalar as yaml.safe_load yields it: a str, or None for null.
Str(s) == [tag |-> "str", s |-> s]
None == [tag |-> "null", s |-> ""]

\* f"{v}": str(v); None formats as the text None.
Format(v) == IF v.tag = "null" THEN "None" ELSE v.s

\* A path of the file system: absent, or a file with its lines.
NoFile == [exists |-> FALSE, content |-> <<>>]
File(lines) == [exists |-> TRUE, content |-> lines]

\* dict.get(key, default)
DictGet(d, key, default) == IF key \in DOMAIN d THEN d[key] ELSE default

TargetValues == {None, Str(""), Str("custom")}

\* A device spec: a mapping with or without the target_file key.
DeviceConfigs ==
    {[name |-> Str("router")]}
        \cup {[name |-> Str("router"), target_file |-> v] : v \in TargetValues}

DevicesMaps == UNION {[K -> DeviceConfigs] : K \in SUBSET Names}

\* Sequences over S of length at most n: the items() of an ordered mapping.
SeqsUpTo(S, n) == UNION {[1..m -> S] : m \in 0..n}

\* An instance list; the code only tests membership (device_name in instances),
\* so the list is kept as the set of its elements.
InstanceLists == {A \in SUBSET AliasNames : Cardinality(A) <= MaxAliases}

\* device_instances: base device -> instance list, keys distinct, in stored order.
DeviceInstancesMaps ==
    {di \in SeqsUpTo([base : BaseNames, instances : InstanceLists],
                      Cardinality(BaseNames)) :
        \A i, j \in 1..Len(di) : i # j => di[i].base # di[j].base}

\* labs is an ordered mapping; its keys are distinct by construction.
LabsMaps ==
    {[i \in 1..Len(ds) |-> [name |-> LabNames[i], device_instances |-> ds[i]]] :
        ds \in SeqsUpTo(DeviceInstancesMaps, Len(LabNames))}

----------------------------------------------------------------------------
(* resolve_target.py *)

NotFound == [found |-> FALSE, path |-> ""]
Found(p) == [found |-> TRUE, path |-> p]

\* Mutant: the target_file override is ignored.
TargetFile_no_override(devices, name) == "targets/" \o name \o ".yaml"

\* target_name = device_config.get('target_file', name); f"targets/{target_name}.yaml"
TargetFile(devices, name) ==
    "targets/" \o Format(DictGet(devices[name], "target_file", Str(name))) \o ".yaml"

\* Mutant: the stem is taken from the alias instead of the base device.
RECURSIVE ScanBases_alias_stem(_, _, _, _)
ScanBases_alias_stem(di, j, name, devices) ==
    IF j > Len(di) THEN NotFound
    ELSE IF name \in di[j].instances /\ di[j].base \in DOMAIN devices
         THEN Found("targets/" \o name \o ".yaml")
         ELSE ScanBases_alias_stem(di, j + 1, name, devices)

\* Mutant: the instance list is not consulted.
RECURSIVE ScanBases_any_entry(_, _, _, _)
ScanBases_any_entry(di, j, name, devices) ==
    IF j > Len(di) THEN NotFound
    ELSE IF di[j].base \in DOMAIN devices
         THEN Found(TargetFile(devices, di[j].base))
         ELSE ScanBases_any_entry(di, j + 1, name, devices)

\* inner loop: for base_device, instances in device_instances.items()
RECURSIVE ScanBases(_, _, _, _)
ScanBases(di, j, name, devices) ==
    IF j > Len(di) THEN NotFound
    ELSE IF name \in di[j].instances /\ di[j].base \in DOMAIN devices
         THEN Found(TargetFile(devices, di[j].base))
         ELSE ScanBases(di, j + 1, name, devices)

\* outer loop: for lab_name, lab_config in labs.items()
RECURSIVE ScanLabs(_, _, _, _)
ScanLabs(labs, i, name, devices) ==
    IF i > Len(labs) THEN NotFound
    ELSE LET r == ScanBases(labs[i].device_instances, 1, name, devices)
         IN IF r.found THEN r ELSE ScanLabs(labs, i + 1, name, devices)

\* Mutant: the instance lists are searched before the device keys.
resolve_target_file_instances_first(name, ln) ==
    LET r == ScanLabs(ln.labs, 1, name, ln.devices)
    IN IF r.found THEN r
       ELSE IF name \in DOMAIN ln.devices
            THEN Found(TargetFile(ln.devices, name))
            ELSE NotFound

\* resolve_target_file: direct match, then instance match, else not found.
resolve_target_file(name, ln) ==
    IF name \in DOMAIN ln.devices
    THEN Found(TargetFile(ln.devices, name))
    ELSE ScanLabs(ln.labs, 1, name, ln.devices)

NotFoundMessage(name) ==
    "Error: Device or instance '" \o name \o "' not found in labnet.yaml"

\* main(): target_file = resolve_target_file(device_name); print(target_file)
ResolveMain ==
    /\ pc = "start"
    /\ LET r == resolve_target_file(device_name, labnet)
       IN IF r.found
          THEN /\ stdout' = <<r.path>>
               /\ stderr' = stderr
               /\ status' = 0
               /\ pc' = "done"
          ELSE /\ stderr' = <<NotFoundMessage(device_name)>>
               /\ stdout' = stdout
               /\ status' = 1
               /\ pc' = "exit"
    /\ UNCHANGED <<labnet, device_name>>
    /\ UNCHANGED genVars

InitResolve ==
    /\ labnet \in [devices : DevicesMaps, labs : LabsMaps]
    /\ device_name \in Names
    /\ pc = "start"
    /\ status = -1
    /\ stdout = <<>>
    /\ stderr = <<>>
    /\ lab_name = ""
    /\ labnet_file = "ok"
    /\ template = NoFile
    /\ now = 0
    /\ epoch = -1
    /\ places_yaml = <<>>
    /\ out_dir = FALSE
    /\ out_file = NoFile
    /\ last_epoch = -1
    /\ entry = [dir |-> FALSE, file |-> NoFile, epoch |-> -1]
    /\ runs = 0

NextResolve == ResolveMain

SpecResolve == InitResolve /\ [][NextResolve]_vars

----------------------------------------------------------------------------
(* String operations of generate_places_yaml.py *)

\* sub in s
Contains(s, sub) ==
    \E i \in 1..(Len(s) + 1) :
        i + Len(sub) - 1 <= Len(s) /\ SubSeq(s, i, i + Len(sub) - 1) = sub

\* s.endswith(suffix)
EndsWith(s, suffix) ==
    Len(suffix) <= Len(s) /\ SubSeq(s, Len(s) - Len(suffix) + 1, Len(s)) = suffix

\* s.lstrip(c) and s.rstrip(c) for a one-character string c
RECURSIVE LStrip(_, _)
LStrip(s, c) ==
    IF Len(s) > 0 /\ SubSeq(s, 1, 1) = c THEN LStrip(SubSeq(s, 2, Len(s)), c) ELSE s

RECURSIVE RStrip(_, _)
RStrip(s, c) ==
    IF Len(s) > 0 /\ SubSeq(s, Len(s), Len(s)) = c
    THEN RStrip(SubSeq(s, 1, Len(s) - 1), c)
    ELSE s

\* s.strip(): the lines of the model hold no white space but blanks
Strip(s) == RStrip(LStrip(s, " "), " ")

\* sep.join(seq)
RECURSIVE Join(_, _)
Join(seq, sep) ==
    IF Len(seq) = 0 THEN ""
    ELSE IF Len(seq) = 1 THEN seq[1]
    ELSE seq[1] \o sep \o Join(Tail(seq), sep)

----------------------------------------------------------------------------
(* generate_places_yaml.py *)

\* labnet.get('labs', {}).keys(), in stored order
LabKeys(ln) == [i \in 1..Len(ln.labs) |-> ln.labs[i].name]

HasLab(ln, lab) == \E i \in 1..Len(ln.labs) : ln.labs[i].name = lab

\* The template engine (jinja2), by line: the lines a template can hold and
\* what each renders to under a context. BadLine refers to an attribute of an
\* undefined name, which the engine refuses.
PlainLine == "# places"
HostLine == "  {{ inventory_hostname }}-router:"
EpochLine == "# generated {{ ansible_date_time.epoch }}"
LabsLine == "# labs {{ labnet.labs | join(', ') }}"
BadLine == "{{ missing.attr }}"
TemplateLines == {PlainLine, HostLine, EpochLine, LabsLine, BadLine}

RenderLine(line, ctx) ==
    CASE line = HostLine -> "  " \o ctx.inventory_hostname \o "-router:"
      [] line = EpochLine -> "# generated " \o ToString(ctx.ansible_date_time.epoch)
      [] line = LabsLine -> "# labs " \o Join(LabKeys(ctx.labnet), ", ")
      [] OTHER -> line

\* Template(template_str).render(**ctx): the text, or the engine's error
TemplateRender(tpl, ctx) ==
    IF \E i \in 1..Len(tpl) : tpl[i] = BadLine
    THEN [ok |-> FALSE, text |-> <<>>]
    ELSE [ok |-> TRUE, text |-> [i \in 1..Len(tpl) |-> RenderLine(tpl[i], ctx)]]

\* Mutant: the default lab is passed as inventory_hostname.
RenderContext_default_lab(ln, lab, t) ==
    [labnet |-> ln,
     inventory_hostname |-> "labgrid-fcefyn",
     ansible_date_time |-> [epoch |-> t]]

\* The keyword arguments of template.render
RenderContext(ln, lab, t) ==
    [labnet |-> ln,
     inventory_hostname |-> lab,
     ansible_date_time |-> [epoch |-> t]]

\* line.strip().endswith(':') and 'labgrid-' in line
IsPlaceLine(line) == EndsWith(Strip(line), ":") /\ Contains(line, "labgrid-")

\* Mutant: only the first lab is listed.
AvailableLabs_first_only(ln) ==
    "Available labs: " \o (IF Len(ln.labs) = 0 THEN "" ELSE ln.labs[1].name)

AvailableLabs(ln) == "Available labs: " \o Join(LabKeys(ln), ", ")

OutputPath == "places.yaml"

\* What a failing exit leaves behind.
Exit(lines) ==
    /\ stderr' = lines
    /\ status' = 1
    /\ pc' = "exit"
    /\ UNCHANGED <<stdout, epoch, places_yaml, out_dir, out_file, last_epoch>>

Frame == UNCHANGED <<labnet, device_name, lab_name, labnet_file, template, now,
                     entry, runs>>

\* if not labnet_path.exists(): ... sys.exit(1)
CheckLabnet ==
    /\ pc = "start"
    /\ IF labnet_file = "missing"
       THEN Exit(<<"Error: labnet.yaml not found at labnet.yaml">>)
       ELSE /\ pc' = "load"
            /\ UNCHANGED <<status, stdout, stderr, epoch, places_yaml, out_dir,
                           out_file, last_epoch>>
    /\ Frame

\* labnet = yaml.safe_load(f): a document that does not parse raises
LoadLabnet ==
    /\ pc = "load"
    /\ IF labnet_file = "malformed"
       THEN Exit(<<"Traceback: yaml.YAMLError">>)
       ELSE /\ pc' = "verify_lab"
            /\ UNCHANGED <<status, stdout, stderr, epoch, places_yaml, out_dir,
                           out_file, last_epoch>>
    /\ Frame

\* if lab_name not in labnet.get('labs', {}): ... sys.exit(1)
VerifyLab ==
    /\ pc = "verify_lab"
    /\ IF ~HasLab(labnet, lab_name)
       THEN Exit(<<"Error: Lab '" \o lab_name \o "' not found in labnet.yaml",
                   AvailableLabs(labnet)>>)
       ELSE /\ pc' = "check_template"
            /\ UNCHANGED <<status, stdout, stderr, epoch, places_yaml, out_dir,
                           out_file, last_epoch>>
    /\ Frame

\* Mutant: the output directory is created before the template is looked for.
CheckTemplate_mkdir_first ==
    /\ pc = "check_template"
    /\ out_dir' = TRUE
    /\ IF ~template.exists
       THEN /\ stderr' = <<"Error: Template not found at places.yaml.j2">>
            /\ status' = 1
            /\ pc' = "exit"
       ELSE /\ pc' = "render"
            /\ UNCHANGED <<status, stderr>>
    /\ UNCHANGED <<stdout, epoch, places_yaml, out_file, last_epoch>>
    /\ Frame

\* if not template_path.exists(): ... sys.exit(1)
CheckTemplate ==
    /\ pc = "check_template"
    /\ IF ~template.exists
       THEN Exit(<<"Error: Template not found at places.yaml.j2">>)
       ELSE /\ pc' = "render"
            /\ UNCHANGED <<status, stdout, stderr, epoch, places_yaml, out_dir,
                           out_file, last_epoch>>
    /\ Frame

\* template_str = f.read(); places_yaml = Template(template_str).render(...)
Render ==
    /\ pc = "render"
    /\ LET r == TemplateRender(template.content, RenderContext(labnet, lab_name, now))
       IN IF ~r.ok
          THEN Exit(<<"Traceback: jinja2.exceptions.UndefinedError">>)
          ELSE /\ places_yaml' = r.text
               /\ epoch' = now
               /\ pc' = "mkdir"
               /\ UNCHANGED <<status, stdout, stderr, out_dir, out_file, last_epoch>>
    /\ Frame

\* output_path.parent.mkdir(parents=True, exist_ok=True)
Mkdir ==
    /\ pc = "mkdir"
    /\ out_dir' = TRUE
    /\ pc' = "write"
    /\ UNCHANGED <<status, stdout, stderr, epoch, places_yaml, out_file, last_epoch>>
    /\ Frame

\* with open(output_path, 'w') as f: f.write(places_yaml)
Write ==
    /\ pc = "write"
    /\ out_file' = File(places_yaml)
    /\ last_epoch' = epoch
    /\ pc' = "report"
    /\ UNCHANGED <<status, stdout, stderr, epoch, places_yaml, out_dir>>
    /\ Frame

PlaceItem(line) == "  - " \o RStrip(Strip(line), ":")

\* the summary printed after the write; the function returns
Report ==
    /\ pc = "report"
    /\ LET places == SelectSeq(places_yaml, IsPlaceLine)
       IN stdout' = <<"places.yaml generated successfully",
                      "  Output: " \o OutputPath,
                      "  Lab: " \o lab_name,
                      "  Places generated: " \o ToString(Len(places)),
                      "",
                      "Generated places:">>
                    \o [i \in 1..Len(places) |-> PlaceItem(places[i])]
    /\ status' = 0
    /\ pc' = "done"
    /\ UNCHANGED <<stderr, epoch, places_yaml, out_dir, out_file, last_epoch>>
    /\ Frame

\* The same command is run again: a new process, the same files.
Invoke ==
    /\ pc \in {"done", "exit"}
    /\ runs < MaxRuns
    /\ runs' = runs + 1
    /\ pc' = "start"
    /\ status' = -1
    /\ stdout' = <<>>
    /\ stderr' = <<>>
    /\ epoch' = -1
    /\ places_yaml' = <<>>
    /\ entry' = [dir |-> out_dir, file |-> out_file, epoch |-> last_epoch]
    /\ UNCHANGED <<labnet, device_name, lab_name, labnet_file, template, now,
                   out_dir, out_file, last_epoch>>

\* Time passes.
Tick ==
    /\ now < MaxClock
    /\ now' = now + 1
    /\ UNCHANGED <<labnet, pc, status, stdout, stderr, device_name, lab_name,
                   labnet_file, template, epoch, places_yaml, out_dir, out_file,
                   last_epoch, entry, runs>>

\* Topologies of the generator: labs under distinct keys, in any order.
GenLabsMaps ==
    {[i \in 1..Len(ks) |-> [name |-> ks[i], device_instances |-> <<>>]] :
        ks \in {k \in SeqsUpTo({LabNames[i] : i \in 1..Len(LabNames)}, Len(LabNames)) :
                   \A i, j \in 1..Len(k) : i # j => k[i] # k[j]}}

LabArguments == {LabNames[i] : i \in 1..Len(LabNames)} \cup {"lab-x"}

TemplateFiles ==
    {NoFile} \cup {File(t) : t \in SeqsUpTo(TemplateLines, MaxTemplateLen)}

OutputFiles == {NoFile, File(<<"# written by hand">>)}

InitGen ==
    /\ labnet \in [devices : {[linksys_e8450 |-> [name |-> Str("router")]]},
                   labs : GenLabsMaps]
    /\ lab_name \in LabArguments
    /\ labnet_file \in {"missing", "ok", "malformed"}
    /\ template \in TemplateFiles
    /\ out_file \in OutputFiles
    /\ out_dir \in BOOLEAN
    /\ out_file.exists => out_dir
    /\ entry = [dir |-> out_dir, file |-> out_file, epoch |-> -1]
    /\ last_epoch = -1
    /\ now = 0
    /\ epoch = -1
    /\ places_yaml = <<>>
    /\ runs = 1
    /\ pc = "start"
    /\ status = -1
    /\ stdout = <<>>
    /\ stderr = <<>>
    /\ device_name = ""

NextGen ==
    \/ CheckLabnet
    \/ LoadLabnet
    \/ VerifyLab
    \/ CheckTemplate
    \/ Render
    \/ Mkdir
    \/ Write
    \/ Report
    \/ Invoke
    \/ Tick

SpecGen == InitGen /\ [][NextGen]_vars

----------------------------------------------------------------------------
(* Properties of resolve_target.py *)

\* The run of resolve_target.py has ended, by print or by sys.exit(1).
Resolved == pc \in {"done", "exit"}

\* What the run produced: the printed path, or the reported not-found error.
Outcome == IF status = 0 THEN Found(stdout[1]) ELSE NotFound

\* The (lab, entry) positions whose instance list holds name.
MatchingPairs(name) ==
    {p \in {<<i, j>> : i \in 1..Len(labnet.labs), j \in 1..Cardinality(BaseNames)} :
        /\ p[2] <= Len(labnet.labs[p[1]].device_instances)
        /\ name \in labnet.labs[p[1]].device_instances[p[2]].instances}

BaseAt(p) == labnet.labs[p[1]].device_instances[p[2]].base

IsAlias(name) == MatchingPairs(name) # {}

\* p comes before q in the stored order of labs, then of device_instances.
Before(p, q) == p[1] < q[1] \/ (p[1] = q[1] /\ p[2] < q[2])

\* The labs in which name is listed under base b.
LabsListing(name, b) == {p[1] : p \in {q \in MatchingPairs(name) : BaseAt(q) = b}}

HasTargetFile(d) == "target_file" \in DOMAIN labnet.devices[d]

\* C1: a device key whose spec has no target_file entry resolves to
\* targets/<key>.yaml, whatever the labs section holds.
C1_DirectDefaultStem ==
    (Resolved /\ device_name \in DOMAIN labnet.devices /\ ~HasTargetFile(device_name))
        => (status = 0 /\ stdout = <<"targets/" \o device_name \o ".yaml">>)

\* C1 witness: such a device that is also listed as an alias of another base
\* device present in devices.
C1_Witness ==
    /\ Resolved
    /\ device_name \in DOMAIN labnet.devices
    /\ ~HasTargetFile(device_name)
    /\ \E p \in MatchingPairs(device_name) :
          BaseAt(p) # device_name /\ BaseAt(p) \in DOMAIN labnet.devices
    /\ stdout = <<"targets/" \o device_name \o ".yaml">>

\* The devices an alias can be resolved through: bases present in devices.
UsableBases(name) ==
    {BaseAt(p) : p \in {q \in MatchingPairs(name) : BaseAt(q) \in DOMAIN labnet.devices}}

\* C2: a device whose spec has target_file = t (a string) resolves to
\* targets/<t>.yaml, by its own name and through an instance alias alike.
C2_ExplicitTargetFile ==
    Resolved =>
        /\ (/\ device_name \in DOMAIN labnet.devices
            /\ HasTargetFile(device_name)
            /\ labnet.devices[device_name].target_file.tag = "str")
              => stdout = <<"targets/"
                              \o labnet.devices[device_name].target_file.s
                              \o ".yaml">>
        /\ \A b \in BaseNames :
              (/\ device_name \notin DOMAIN labnet.devices
               /\ UsableBases(device_name) = {b}
               /\ HasTargetFile(b)
               /\ labnet.devices[b].target_file.tag = "str")
                 => stdout = <<"targets/" \o labnet.devices[b].target_file.s \o ".yaml">>

\* C2 witness: an alias resolved through a base device with target_file custom.
C2_Witness ==
    /\ Resolved
    /\ device_name \notin DOMAIN labnet.devices
    /\ \E b \in BaseNames :
          /\ UsableBases(device_name) = {b}
          /\ HasTargetFile(b)
          /\ labnet.devices[b].target_file = Str("custom")
    /\ stdout = <<"targets/custom.yaml">>

\* C3 as claimed: an alias registered under base b in exactly one lab resolves
\* as b does.
C3_AliasResolvesAsBase_Original ==
    Resolved =>
        \A b \in BaseNames :
            Cardinality(LabsListing(device_name, b)) = 1
                => Outcome = resolve_target_file(b, labnet)

\* C3 amended: an alias that is not itself a key of devices, registered under
\* base b in exactly one lab and under no other base device, where b is a key
\* of devices or is not itself listed as an alias, resolves as b does.
C3_AliasResolvesAsBase ==
    Resolved =>
        \A b \in BaseNames :
            (/\ Cardinality(LabsListing(device_name, b)) = 1
             /\ device_name \notin DOMAIN labnet.devices
             /\ \A p \in MatchingPairs(device_name) : BaseAt(p) = b
             /\ (b \in DOMAIN labnet.devices \/ ~IsAlias(b)))
                => Outcome = resolve_target_file(b, labnet)

\* C3 witness: the alias resolved to the path of its base device, whose spec
\* overrides the stem.
C3_Witness ==
    /\ Resolved
    /\ device_name \notin DOMAIN labnet.devices
    /\ \E b \in BaseNames :
          /\ Cardinality(LabsListing(device_name, b)) = 1
          /\ \A p \in MatchingPairs(device_name) : BaseAt(p) = b
          /\ b \in DOMAIN labnet.devices
          /\ HasTargetFile(b)
          /\ Outcome = resolve_target_file(b, labnet)
    /\ status = 0

\* C4: an identifier that is neither a key of devices nor in any instance list
\* ends in the not-found error: nothing printed, a diagnostic naming it, status 1.
C4_UnknownIdentifierNotFound ==
    (Resolved /\ device_name \notin DOMAIN labnet.devices /\ ~IsAlias(device_name))
        => /\ pc = "exit"
           /\ status = 1
           /\ stdout = <<>>
           /\ Len(stderr) = 1
           /\ Contains(stderr[1], device_name)

\* C4 witness: the error is reported in a topology that has devices and
\* non-empty instance lists.
C4_Witness ==
    /\ pc = "exit"
    /\ status = 1
    /\ device_name \notin DOMAIN labnet.devices
    /\ ~IsAlias(device_name)
    /\ DOMAIN labnet.devices # {}
    /\ \E n \in Names : IsAlias(n) /\ UsableBases(n) # {}

\* C5 as claimed: an identifier that is no device key and whose first listing,
\* in stored order, is under a base device absent from devices ends in the
\* not-found error, whatever labs or base devices follow.
C5_DanglingAliasNotFound ==
    (Resolved /\ device_name \notin DOMAIN labnet.devices) =>
        \A p \in MatchingPairs(device_name) :
            (/\ \A q \in MatchingPairs(device_name) : q = p \/ Before(p, q)
             /\ BaseAt(p) \notin DOMAIN labnet.devices)
                => (status = 1 /\ stdout = <<>>)

\* C9 as claimed: the first pair, in stored order, whose instance list holds
\* the identifier determines the outcome: the path of its base device if that
\* is in devices, the not-found error otherwise.
C9_FirstMatchWins ==
    (Resolved /\ device_name \notin DOMAIN labnet.devices) =>
        \A p \in MatchingPairs(device_name) :
            (\A q \in MatchingPairs(device_name) : q = p \/ Before(p, q))
                => Outcome = IF BaseAt(p) \in DOMAIN labnet.devices
                             THEN Found(TargetFile(labnet.devices, BaseAt(p)))
                             ELSE NotFound

\* The stems C10 allows for a path: a device's canonical name or its
\* target_file string.
AllowedStems ==
    UNION {{d} \cup (IF HasTargetFile(d) /\ labnet.devices[d].target_file.tag = "str"
                     THEN {labnet.devices[d].target_file.s} ELSE {}) :
           d \in DOMAIN labnet.devices}

\* C10 as claimed: every printed path is targets/<stem>.yaml with a non-empty
\* stem that is a target_file value or a canonical device name.
C10_NonEmptyStem ==
    (Resolved /\ status = 0) =>
        \E stem \in AllowedStems :
            stem # "" /\ stdout = <<"targets/" \o stem \o ".yaml">>

----------------------------------------------------------------------------
(* Properties of generate_places_yaml.py *)

UnknownLab == \A i \in 1..Len(labnet.labs) : labnet.labs[i].name # lab_name

\* C6: with a lab_name that is not a key of labs the run ends with status 1
\* before anything is rendered, and its diagnostic contains every key of labs.
C6_UnknownLabListsAllLabs ==
    (labnet_file = "ok" /\ UnknownLab) =>
        /\ pc \in {"start", "load", "verify_lab", "exit"}
        /\ pc = "exit" =>
              /\ status = 1
              /\ \A i \in 1..Len(labnet.labs) :
                    \E k \in 1..Len(stderr) : Contains(stderr[k], labnet.labs[i].name)

\* C6 witness: the run failed on an unknown lab in a topology with two labs.
C6_Witness ==
    /\ pc = "exit"
    /\ labnet_file = "ok"
    /\ UnknownLab
    /\ Len(labnet.labs) = 2
    /\ Len(stderr) = 2

\* C7: until the render has succeeded the output directory and file are as
\* the run found them and nothing is printed to stdout; a failed run ends
\* with status 1 in that state.
C7_NoPartialResultOnFailure ==
    /\ pc \notin {"write", "report", "done"} =>
          /\ out_dir = entry.dir
          /\ out_file = entry.file
          /\ stdout = <<>>
    /\ pc = "exit" => (status = 1 /\ stderr # <<>>)
    /\ pc \in {"mkdir", "write", "report", "done"} =>
          /\ labnet_file = "ok"
          /\ ~UnknownLab
          /\ template.exists
          /\ TemplateRender(template.content,
                            [labnet |-> labnet,
                             inventory_hostname |-> lab_name,
                             ansible_date_time |-> [epoch |-> epoch]]).ok

\* C7 witness: the render failed and the output directory, absent when the
\* run started, is still absent.
C7_Witness ==
    /\ pc = "exit"
    /\ stderr = <<"Traceback: jinja2.exceptions.UndefinedError">>
    /\ ~out_dir
    /\ ~out_file.exists
    /\ stdout = <<>>

\* C8: the file written is the engine's output for the context {labnet,
\* inventory_hostname: lab name, ansible_date_time.epoch: the clock read at the
\* render}, verbatim; against the previous render of the same inputs it
\* differs only in lines that embed the timestamp, and not at all when the
\* timestamps are equal.
C8_RenderVerbatimModuloTimestamp ==
    pc = "done" =>
        LET r == TemplateRender(template.content,
                                [labnet |-> labnet,
                                 inventory_hostname |-> lab_name,
                                 ansible_date_time |-> [epoch |-> epoch]])
        IN /\ r.ok
           /\ epoch \in 0..now
           /\ out_file = File(r.text)
           /\ entry.epoch # -1 =>
                 /\ entry.file.exists
                 /\ Len(entry.file.content) = Len(out_file.content)
                 /\ \A i \in 1..Len(out_file.content) :
                       entry.file.content[i] # out_file.content[i]
                           => (template.content[i] = EpochLine /\ entry.epoch # epoch)
                 /\ entry.epoch = epoch => entry.file = out_file

\* C8 witness: a second render of the same inputs at a later second wrote a
\* file that differs from the first, from a template that also embeds the
\* lab name.
C8_Witness ==
    /\ pc = "done"
    /\ entry.epoch # -1
    /\ entry.epoch # epoch
    /\ out_file # entry.file
    /\ \E i \in 1..Len(template.content) : template.content[i] = HostLine
    /\ lab_name # "labgrid-fcefyn"

====
